---------------------------- MODULE Spec2Model ----------------------------
(***************************************************************************)
(* A model of src/app.py (pipe-risk-app): get_bounds, and build_map with   *)
(* its two closures style_fn and tooltip_html.                             *)
(*                                                                         *)
(* Encoding of the Python/JSON values:                                     *)
(*   - a float is a record [k, n]: k = "fin" with the integer n, or        *)
(*     k = "+inf", "-inf", "nan" (n = 0).  Coordinates are drawn even, so  *)
(*     the true division (a + b) / 2 of get_bounds is exact in integers;   *)
(*   - a geometry is a record: null (JSON null) or a dict with the set of  *)
(*     its keys, its "type", and its "coordinates" in the shape the type   *)
(*     gives them (line: a list of points, lines: a list of such lists);   *)
(*   - a feature is a dict with the set of its keys, its geometry and its  *)
(*     properties; properties is a function whose DOMAIN is the set of     *)
(*     keys present.                                                       *)
(***************************************************************************)
EXTENDS Integers, Sequences, FiniteSets, TLC

VARIABLES
    gj,       \* the feature collection gj["features"], as the program holds it
    gj0,      \* the collection as it was loaded (history, never read by the code)
    mode,     \* the mode of the last build_map call, "" before the first
    calls,    \* the number of build_map calls made on gj
    bres,     \* what the last get_bounds call did: returned (center, bounds) or raised
    styled,   \* what the last style_fn call of the current map returned, and for
              \* which feature (none yet: i = 0)
    status    \* how the last build_map call ended: "none", "returned" or "raised"

vars == <<gj, gj0, mode, calls, bres, styled, status>>

-----------------------------------------------------------------------------
(* Bounds of the model *)

MaxFeatures == 2     \* features in a collection
MaxPts == 2          \* points in a LineString
MaxCalls == 2        \* build_map calls on one collection

-----------------------------------------------------------------------------
(* Floats: math.inf, -math.inf, nan and the finite values *)

Fin(n) == [k |-> "fin", n |-> n]
PInf == [k |-> "+inf", n |-> 0]
NInf == [k |-> "-inf", n |-> 0]
NaN == [k |-> "nan", n |-> 0]

\* a < b on floats: every comparison with nan is false
Lt(a, b) ==
    CASE a.k = "nan" \/ b.k = "nan" -> FALSE
      [] a.k = "-inf" -> b.k # "-inf"
      [] a.k = "+inf" -> FALSE
      [] b.k = "-inf" -> FALSE
      [] b.k = "+inf" -> TRUE
      [] OTHER -> a.n < b.n

\* Python's min(a, b): the first of the smallest, so b only if b < a
PyMin(a, b) == IF Lt(b, a) THEN b ELSE a

\* Python's max(a, b): the first of the largest, so b only if b > a
PyMax(a, b) == IF Lt(a, b) THEN b ELSE a

\* a + b on floats: inf + -inf is nan
FAdd(a, b) ==
    CASE a.k = "nan" \/ b.k = "nan" -> NaN
      [] a.k = "fin" /\ b.k = "fin" -> Fin(a.n + b.n)
      [] a.k = "fin" -> b
      [] b.k = "fin" -> a
      [] a.k = b.k -> a
      [] OTHER -> NaN

\* a / 2 on floats (exact: the finite sums here are even)
FHalf(a) == IF a.k = "fin" THEN Fin(a.n \div 2) ELSE a

-----------------------------------------------------------------------------
(* get_bounds *)

\* the {} that feat.get("geometry", {}) gives for a feature with no geometry key
EmptyGeom == [null |-> FALSE, keys |-> {}, type |-> "", line |-> <<>>, lines |-> <<>>]

\* feat.get("geometry", {}): the value under the key (null included), {} without the key
FeatGeometry(feat) ==
    IF "geometry" \in feat.keys THEN feat.geometry ELSE EmptyGeom

\* geom.get("type") == name, for a geom that is a dict
TypeIs(geom, name) == "type" \in geom.keys /\ geom.type = name

\* (mutant) a flattening that keeps only the first line
FlattenFirstLineOnly(lines) == IF lines = <<>> THEN <<>> ELSE Head(lines)

\* [pt for line in lines for pt in line]
RECURSIVE Flatten(_)
Flatten(lines) ==
    IF lines = <<>> THEN <<>> ELSE Head(lines) \o Flatten(Tail(lines))

\* the coords a supported geometry contributes: geom.get("coordinates", []), flattened
\* for a MultiLineString
GeomCoords(geom) ==
    IF TypeIs(geom, "LineString")
    THEN IF "coordinates" \in geom.keys THEN geom.line ELSE <<>>
    ELSE IF "coordinates" \in geom.keys THEN Flatten(geom.lines) ELSE <<>>

\* (mutant) running values that start at zero
InitAccZero == [minlat |-> Fin(0), minlon |-> Fin(0), maxlat |-> Fin(0), maxlon |-> Fin(0)]

\* the running minima and maxima before the scan
InitAcc == [minlat |-> PInf, minlon |-> PInf, maxlat |-> NInf, maxlon |-> NInf]

\* for lon, lat in coords: update the four running values
RECURSIVE ScanCoords(_, _)
ScanCoords(coords, acc) ==
    IF coords = <<>> THEN acc
    ELSE LET lon == Fin(Head(coords)[1])
             lat == Fin(Head(coords)[2])
         IN ScanCoords(Tail(coords),
                [minlat |-> PyMin(acc.minlat, lat), maxlat |-> PyMax(acc.maxlat, lat),
                 minlon |-> PyMin(acc.minlon, lon), maxlon |-> PyMax(acc.maxlon, lon)])

\* the loop over geojson["features"]: geom.get on a null geometry raises
\* AttributeError, which ends the call
RECURSIVE ScanFeatures(_, _)
ScanFeatures(feats, acc) ==
    IF feats = <<>> THEN [raised |-> FALSE, acc |-> acc]
    ELSE LET geom == FeatGeometry(Head(feats))
         IN IF geom.null THEN [raised |-> TRUE, acc |-> acc]
            ELSE IF TypeIs(geom, "LineString") \/ TypeIs(geom, "MultiLineString")
                 THEN ScanFeatures(Tail(feats), ScanCoords(GeomCoords(geom), acc))
                 ELSE ScanFeatures(Tail(feats), acc)

\* what a call that has not happened, or that raised, leaves as its value
NoPair == <<NaN, NaN>>

\* get_bounds(geojson): (center, bounds), or the exception; geojson is what the
\* call leaves of its argument
get_bounds(geojson) ==
    LET s == ScanFeatures(geojson, InitAcc)
        a == s.acc
    IN IF s.raised
       THEN [raised |-> TRUE, center |-> NoPair, bounds |-> <<NoPair, NoPair>>,
             geojson |-> geojson]
       ELSE [raised |-> FALSE,
             center |-> <<FHalf(FAdd(a.minlat, a.maxlat)), FHalf(FAdd(a.minlon, a.maxlon))>>,
             bounds |-> <<<<a.minlat, a.minlon>>, <<a.maxlat, a.maxlon>>>>,
             geojson |-> geojson]

-----------------------------------------------------------------------------
(* JSON values of properties, and their Python conversions *)

\* A value is a record [t, s, n]: t = "null" (None), "str" (the string s),
\* "int" (the integer n) or "float" (n in units of 10^-9).
Null == [t |-> "null", s |-> "", n |-> 0]
StrV(x) == [t |-> "str", s |-> x, n |-> 0]
IntV(i) == [t |-> "int", s |-> "", n |-> i]
FloatV(x) == [t |-> "float", s |-> "", n |-> x]

\* round(x, 4) rounds to 4 decimal places: the step is 10^-4
NDigits == 4
RECURSIVE Pow10(_)
Pow10(e) == IF e = 0 THEN 1 ELSE 10 * Pow10(e - 1)
\* one, as a float in units of 10^-9, and the step 10^-NDigits of the rounding
Unit == Pow10(9)
Step4 == Unit \div Pow10(NDigits)

DigitChars == <<"0", "1", "2", "3", "4", "5", "6", "7", "8", "9">>

\* str(i) of a natural number
RECURSIVE NatStr(_)
NatStr(i) ==
    IF i < 10 THEN DigitChars[i + 1] ELSE NatStr(i \div 10) \o DigitChars[(i % 10) + 1]

\* str(i) of an int
IntStr(i) == IF i < 0 THEN "-" \o NatStr(-i) ELSE NatStr(i)

\* the w digits of f, zero-padded on the left
RECURSIVE Padded(_, _)
Padded(f, w) ==
    IF w = 0 THEN "" ELSE Padded(f \div 10, w - 1) \o DigitChars[(f % 10) + 1]

\* the decimals of a fraction f of w digits, trailing zeros dropped, one digit kept
RECURSIVE FracStr(_, _)
FracStr(f, w) ==
    IF w > 1 /\ f % 10 = 0 THEN FracStr(f \div 10, w - 1) ELSE Padded(f, w)

\* repr(x) of a non-negative float that Python prints in fixed notation
\* (0, or 10^-4 <= x < 10^16): the shortest decimal that reads back as x
FloatRepr(x) == NatStr(x \div Unit) \o "." \o FracStr(x % Unit, 9)

\* f"{v}": str(v)
PyStr(v) ==
    CASE v.t = "null" -> "None"
      [] v.t = "str" -> v.s
      [] v.t = "int" -> IntStr(v.n)
      [] OTHER -> FloatRepr(v.n)

\* The strings that float() accepts among those the model draws, with their values;
\* on any other string float() raises ValueError.
FloatLiterals == {"0.123456789", "1"}
FloatLiteral(x) == IF x = "0.123456789" THEN 123456789 ELSE Unit

\* float(v), for v that is not None: the float, or the exception
PyFloat(v) ==
    CASE v.t = "float" -> [ok |-> TRUE, x |-> v.n]
      [] v.t = "int" -> [ok |-> TRUE, x |-> v.n * Unit]
      [] v.t = "str" /\ v.s \in FloatLiterals -> [ok |-> TRUE, x |-> FloatLiteral(v.s)]
      [] OTHER -> [ok |-> FALSE, x |-> 0]

\* (mutant) a rounding that truncates
RoundDown4(x) == (x \div Step4) * Step4

\* round(x, 4) of a non-negative float: the nearest multiple of 10^-4, a tie
\* (exact in binary for the values drawn) to the even one
Round4(x) ==
    LET q == x \div Step4
        r == x % Step4
    IN IF 2 * r < Step4 THEN q * Step4
       ELSE IF 2 * r > Step4 THEN (q + 1) * Step4
       ELSE IF q % 2 = 0 THEN q * Step4 ELSE (q + 1) * Step4

\* lines 70-72 and 73-75: the value is kept if it is None or float() raises,
\* else it becomes round(float(v), 4)
Rounded(v) ==
    IF v.t = "null" THEN v
    ELSE LET f == PyFloat(v)
         IN IF f.ok THEN FloatV(Round4(f.x)) ELSE v

-----------------------------------------------------------------------------
(* Settings, and build_map's closures *)

PALETTE ==
    ("Very Low" :> "#7fc97f") @@ ("Low" :> "#beed90") @@ ("Moderate" :> "#ffff99")
    @@ ("Moderately High" :> "#fdc86e") @@ ("High" :> "#fdae61")
    @@ ("Very High" :> "#d7191c")

\* PALETTE.get(v, default): only a string can equal a key
PaletteGet(v, default) ==
    IF v.t = "str" /\ v.s \in DOMAIN PALETTE THEN PALETTE[v.s] ELSE default

\* (mutant) a GBT branch whose probability field lost its suffix
ModeFieldsMixed(m) ==
    IF m = "Poisson Regression"
    THEN [bucket_field |-> "risk_bucket", p_field |-> "p_ge1",
          lam_field |-> "lambda_hat", layer_name |-> "Risk (Poisson)"]
    ELSE [bucket_field |-> "risk_bucket_gbt", p_field |-> "p_ge1",
          lam_field |-> "lambda_hat_gbt", layer_name |-> "Risk (GBT)"]

\* the field names build_map picks for its mode
ModeFields(m) ==
    IF m = "Poisson Regression"
    THEN [bucket_field |-> "risk_bucket", p_field |-> "p_ge1",
          lam_field |-> "lambda_hat", layer_name |-> "Risk (Poisson)"]
    ELSE [bucket_field |-> "risk_bucket_gbt", p_field |-> "p_ge1_gbt",
          lam_field |-> "lambda_hat_gbt", layer_name |-> "Risk (GBT)"]

\* a dict with no key
EmptyDict == <<>>

\* props.get(key, default)
PropsGet(props, key, default) == IF key \in DOMAIN props THEN props[key] ELSE default

\* feat.get("properties", {})
FeatProperties(feat) ==
    IF "properties" \in feat.keys THEN feat.properties ELSE EmptyDict

\* weight, and opacity 0.9 as a float
StyleWeight == 3
StyleOpacity == 900000000

\* (mutant) a style_fn whose missing-field default is no palette key
style_fn_no_default(feat, f) ==
    LET props == FeatProperties(feat)
        bucket == PropsGet(props, f.bucket_field, StrV("-"))
    IN [ret |-> [color |-> PaletteGet(bucket, "#3186cc"), weight |-> StyleWeight,
                 opacity |-> StyleOpacity],
        feat |-> feat]

\* (mutant) a style_fn that writes the default label into the feature
style_fn_setdefault(feat, f) ==
    LET props == FeatProperties(feat)
        bucket == PropsGet(props, f.bucket_field, StrV("Moderate"))
    IN [ret |-> [color |-> PaletteGet(bucket, "#3186cc"), weight |-> StyleWeight,
                 opacity |-> StyleOpacity],
        feat |-> [feat EXCEPT !.keys = @ \cup {"properties"},
                              !.properties = (f.bucket_field :> bucket) @@ props]]

\* style_fn(feat) under the closure's fields f: the style it returns, and the
\* feature as the call leaves it
style_fn(feat, f) ==
    LET props == FeatProperties(feat)
        bucket == PropsGet(props, f.bucket_field, StrV("Moderate"))
    IN [ret |-> [color |-> PaletteGet(bucket, "#3186cc"), weight |-> StyleWeight,
                 opacity |-> StyleOpacity],
        feat |-> feat]

show == <<"id_segmen", "Jenis_pipa", "Diameter", "Length", "DMA_norm">>

\* The labels of the last three lines.  The source's labels carry a Greek lambda
\* and a greater-or-equal sign, written here {lambda} and {ge}.
LamLabel == "{lambda}_hat: "
P1Label == "P({ge}1): "
RiskLabel == "Risk: "

\* (mutant) a line for every attribute, a placeholder for an absent one
RECURSIVE ShowLinesPlaceholder(_, _)
ShowLinesPlaceholder(ks, props) ==
    IF ks = <<>> THEN <<>>
    ELSE <<Head(ks) \o ": " \o PyStr(PropsGet(props, Head(ks), StrV("-")))>>
         \o ShowLinesPlaceholder(Tail(ks), props)

\* [f"{k}: {props[k]}" for k in ks if k in props]
RECURSIVE ShowLines(_, _)
ShowLines(ks, props) ==
    IF ks = <<>> THEN <<>>
    ELSE IF Head(ks) \in DOMAIN props
         THEN <<Head(ks) \o ": " \o PyStr(props[Head(ks)])>> \o ShowLines(Tail(ks), props)
         ELSE ShowLines(Tail(ks), props)

\* sep.join(lines)
RECURSIVE Join(_, _)
Join(lines, sep) ==
    IF lines = <<>> THEN ""
    ELSE IF Len(lines) = 1 THEN lines[1]
         ELSE lines[1] \o sep \o Join(Tail(lines), sep)

\* the list `lines` of tooltip_html at its return
tooltip_lines(props, f) ==
    LET lam == Rounded(PropsGet(props, f.lam_field, Null))
        p1 == Rounded(PropsGet(props, f.p_field, Null))
    IN ShowLines(show, props)
       \o <<LamLabel \o PyStr(lam), P1Label \o PyStr(p1),
            RiskLabel \o PyStr(PropsGet(props, f.bucket_field, StrV("-")))>>

\* tooltip_html(props) under the closure's fields f
tooltip_html(props, f) == Join(tooltip_lines(props, f), "<br>")

-----------------------------------------------------------------------------
(* The operations *)

\* (mutant) an injection that appends to the _tooltip already there
InjectFeatureAppend(feat, f) ==
    LET props == FeatProperties(feat)
        old == IF "_tooltip" \in DOMAIN props THEN props["_tooltip"].s ELSE ""
    IN [feat EXCEPT !.keys = @ \cup {"properties"},
                    !.properties = ("_tooltip" :> StrV(old \o tooltip_html(props, f))) @@ props]

\* (mutant) an injection that also writes the default bucket label back
InjectFeatureFillBucket(feat, f) ==
    LET props == FeatProperties(feat)
    IN [feat EXCEPT !.keys = @ \cup {"properties"},
                    !.properties = ("_tooltip" :> StrV(tooltip_html(props, f)))
                                   @@ (f.bucket_field :> PropsGet(props, f.bucket_field, StrV("Moderate")))
                                   @@ props]

\* lines 91-92 on one feature: props = feat.setdefault("properties", {}), then
\* props["_tooltip"] = tooltip_html(props)
InjectFeature(feat, f) ==
    LET props == FeatProperties(feat)
    IN [feat EXCEPT !.keys = @ \cup {"properties"},
                    !.properties = ("_tooltip" :> StrV(tooltip_html(props, f))) @@ props]

\* lines 90-92: the loop over gj["features"]
Inject(feats, f) == [i \in 1..Len(feats) |-> InjectFeature(feats[i], f)]

NoBounds == [called |-> FALSE, raised |-> FALSE, center |-> NoPair,
             bounds |-> <<NoPair, NoPair>>]
BoundsResult(b) == [called |-> TRUE, raised |-> b.raised, center |-> b.center,
                    bounds |-> b.bounds]

NoStyle == [i |-> 0, ret |-> [color |-> "", weight |-> 0, opacity |-> 0]]

Modes == {"Poisson Regression", "Gradient Boosted Trees (GBT)", "Other"}

\* build_map(gj, m).  get_bounds runs first and its exception ends the call.
\* folium.Map(location=center) is not in src/: given a centre that holds a nan
\* it either takes the location or raises, and both are modelled.
BuildMap(m) ==
    /\ calls < MaxCalls
    /\ LET b == get_bounds(gj)
           f == ModeFields(m)
       IN /\ bres' = BoundsResult(b)
          /\ mode' = m
          /\ calls' = calls + 1
          /\ styled' = NoStyle
          /\ \/ /\ b.raised
                /\ gj' = b.geojson
                /\ status' = "raised"
             \/ /\ ~b.raised
                /\ NaN \in {b.center[1], b.center[2]}
                /\ gj' = b.geojson
                /\ status' = "raised"
             \/ /\ ~b.raised
                /\ gj' = Inject(b.geojson, f)
                /\ status' = "returned"
    /\ UNCHANGED gj0

\* the map layer calls style_fn on feature i, once build_map has defined it
StyleFn(i) ==
    /\ calls > 0
    /\ ~bres.raised
    /\ i \in 1..Len(gj)
    /\ LET r == style_fn(gj[i], ModeFields(mode))
       IN /\ styled' = [i |-> i, ret |-> r.ret]
          /\ gj' = [gj EXCEPT ![i] = r.feat]
    /\ UNCHANGED <<gj0, mode, calls, bres, status>>

\* get_bounds(gj) called on its own
GetBounds ==
    /\ LET b == get_bounds(gj)
       IN /\ bres' = BoundsResult(b)
          /\ gj' = b.geojson
    /\ UNCHANGED <<gj0, mode, calls, styled, status>>

-----------------------------------------------------------------------------
(* The inputs: what json.load can hand to the program *)

\* sequences over S of length at most n
SeqsUpTo(S, n) == UNION {[1..k -> S] : k \in 0..n}

\* (lon, lat) points: each has an extreme the other lacks; Decoy lies outside
\* both and is only ever held by geometries get_bounds does not read
P1 == <<-2, 4>>
P2 == <<6, 0>>
Decoy == <<10, -8>>

Geom(keys, type, line, lines) ==
    [null |-> FALSE, keys |-> keys, type |-> type, line |-> line, lines |-> lines]
NullGeom == [null |-> TRUE, keys |-> {}, type |-> "", line |-> <<>>, lines |-> <<>>]
Both == {"type", "coordinates"}

LineCoords == SeqsUpTo({P1, P2}, MaxPts)
MultiCoords == SeqsUpTo({<<>>, <<P1>>, <<P2>>, <<P2, P1>>}, 2)

LineStrings ==
    {Geom({"type"}, "LineString", <<>>, <<>>)}
    \cup {Geom(Both, "LineString", l, <<>>) : l \in LineCoords}
MultiLineStrings ==
    {Geom({"type"}, "MultiLineString", <<>>, <<>>)}
    \cup {Geom(Both, "MultiLineString", <<>>, ls) : ls \in MultiCoords}
\* dicts that are no supported geometry: {}, one with no type, other types
OtherGeoms ==
    {EmptyGeom,
     Geom({"coordinates"}, "", <<Decoy>>, <<>>),
     Geom(Both, "MultiPoint", <<Decoy>>, <<>>),
     Geom(Both, "Polygon", <<>>, <<<<Decoy, P1, Decoy>>>>)}

Feature(keys, geometry, properties) ==
    [keys |-> keys, geometry |-> geometry, properties |-> properties]

\* features of every geometry, with empty properties, and one with no geometry key
GeomFeatures ==
    {Feature({"geometry", "properties"}, g, EmptyDict) :
        g \in LineStrings \cup MultiLineStrings \cup OtherGeoms \cup {NullGeom}}
    \cup {Feature({"properties"}, EmptyGeom, EmptyDict)}

\* the values of the bucket fields and of the rate and probability fields;
\* Absent marks a key that is not in the dict
Absent == [t |-> "absent", s |-> "", n |-> 0]
BucketOpts ==
    {Absent, Null, StrV("Unknown")} \cup {StrV(name) : name \in DOMAIN PALETTE}
NumOpts ==
    {Absent, Null, StrV("N/A"), StrV("0.123456789"), IntV(1),
     FloatV(123456789), FloatV(31250000), FloatV(93750000)}

\* the dict with the keys of ks whose value in vals is not Absent
RECURSIVE DictOf(_, _)
DictOf(ks, vals) ==
    IF ks = <<>> THEN EmptyDict
    ELSE IF Head(vals) = Absent THEN DictOf(Tail(ks), Tail(vals))
         ELSE (Head(ks) :> Head(vals)) @@ DictOf(Tail(ks), Tail(vals))

PoissonKeys == <<"risk_bucket", "p_ge1", "lambda_hat">>
GbtKeys == <<"risk_bucket_gbt", "p_ge1_gbt", "lambda_hat_gbt">>
Triples == BucketOpts \X NumOpts \X NumOpts
FewTriples == {<<Absent, Absent, Absent>>, <<StrV("High"), FloatV(Unit \div 2), StrV("N/A")>>}

BaseValue(k) ==
    CASE k = "id_segmen" -> StrV("S-17")
      [] k = "Jenis_pipa" -> StrV("PVC")
      [] k = "Diameter" -> IntV(150)
      [] k = "Length" -> FloatV(Unit \div 4)
      [] OTHER -> StrV("DMA 3")
ShowKeys == {show[i] : i \in 1..Len(show)}
BaseDict(ks) == [k \in ks |-> BaseValue(k)]

ScoreDicts(tps, tgs) ==
    {DictOf(PoissonKeys, tp) @@ DictOf(GbtKeys, tg) : tp \in tps, tg \in tgs}

\* properties: every subset of the base attributes with a few scores (with and
\* without a _tooltip already there), and every score triple of one mode
PropsDicts ==
    {BaseDict(ks) @@ sc @@ old :
        ks \in SUBSET ShowKeys, sc \in ScoreDicts(FewTriples, FewTriples),
        old \in {EmptyDict, "_tooltip" :> StrV("old")}}
    \cup ScoreDicts(Triples, FewTriples) \cup ScoreDicts(FewTriples, Triples)

SomeLine == Geom(Both, "LineString", <<P1, P2>>, <<>>)

PropsFeatures ==
    {Feature({"geometry", "properties"}, SomeLine, p) : p \in PropsDicts}
    \cup {Feature({"geometry"}, SomeLine, EmptyDict)}

\* a few features of both kinds, for collections of several
MixedGeoms ==
    {SomeLine, Geom(Both, "MultiLineString", <<>>, <<<<P2>>, <<P1>>>>), NullGeom}
MixedProps ==
    {BaseDict({"id_segmen", "Length"})
        @@ DictOf(PoissonKeys, <<StrV("High"), FloatV(123456789), StrV("N/A")>>),
     DictOf(PoissonKeys, <<StrV("Low"), IntV(1), FloatV(31250000)>>)
        @@ DictOf(GbtKeys, <<StrV("Unknown"), Absent, StrV("0.123456789")>>),
     ("_tooltip" :> StrV("old")) @@ DictOf(GbtKeys, <<Null, FloatV(93750000), Absent>>)}
MixedFeatures ==
    {Feature({"geometry", "properties"}, g, p) : g \in MixedGeoms, p \in MixedProps}
    \cup {Feature({"geometry"}, g, EmptyDict) : g \in MixedGeoms}
    \cup {Feature({"properties"}, EmptyGeom, p) : p \in MixedProps}
    \cup {Feature({}, EmptyGeom, EmptyDict)}

Fresh ==
    /\ gj0 = gj
    /\ mode = ""
    /\ calls = 0
    /\ bres = NoBounds
    /\ styled = NoStyle
    /\ status = "none"

-----------------------------------------------------------------------------
(* The specifications *)

\* build_map and what follows it, on collections of a few mixed features
Init == gj \in SeqsUpTo(MixedFeatures, MaxFeatures) /\ Fresh

Next ==
    \/ \E m \in Modes : BuildMap(m)
    \/ \E i \in 1..MaxFeatures : StyleFn(i)
    \/ GetBounds

Spec == Init /\ [][Next]_vars

\* get_bounds, on collections of every geometry
InitBounds == gj \in SeqsUpTo(GeomFeatures, MaxFeatures) /\ Fresh

NextBounds == GetBounds

SpecBounds == InitBounds /\ [][NextBounds]_vars

\* the closures of build_map, on one feature of every properties dict (and on
\* the collections build_map does not get past: none, and a null geometry)
InitFeature ==
    /\ gj \in {<<ft>> : ft \in PropsFeatures}
              \cup {<<>>, <<Feature({"geometry"}, NullGeom, EmptyDict)>>}
    /\ Fresh

SpecFeature == InitFeature /\ [][Next]_vars

-----------------------------------------------------------------------------
(* What the claims speak of *)

\* a feature whose geometry get_bounds reads: a dict of type LineString or
\* MultiLineString
Supported(feat) ==
    /\ "geometry" \in feat.keys
    /\ ~feat.geometry.null
    /\ "type" \in feat.geometry.keys
    /\ feat.geometry.type \in {"LineString", "MultiLineString"}

\* a feature whose geometry value is JSON null
HasNullGeometry(feat) == "geometry" \in feat.keys /\ feat.geometry.null

\* the set of (lon, lat) points of a supported feature
PointsOf(feat) ==
    LET g == feat.geometry
    IN IF "coordinates" \notin g.keys THEN {}
       ELSE IF g.type = "LineString" THEN {g.line[i] : i \in 1..Len(g.line)}
       ELSE UNION {{g.lines[j][i] : i \in 1..Len(g.lines[j])} : j \in 1..Len(g.lines)}

\* all points of all supported features of a collection
AllPoints(feats) ==
    UNION {PointsOf(feats[i]) : i \in {j \in 1..Len(feats) : Supported(feats[j])}}

SetMin(S) == CHOOSE x \in S : \A y \in S : x <= y
SetMax(S) == CHOOSE x \in S : \A y \in S : x >= y
Lons(pts) == {pt[1] : pt \in pts}
Lats(pts) == {pt[2] : pt \in pts}

\* a <= b on finite floats
FinLe(a, b) == a.k = "fin" /\ b.k = "fin" /\ a.n <= b.n

\* C1: once get_bounds has run on a collection of dict geometries in which a
\* LineString or MultiLineString contributes a point, it has returned; its bounds are
\* [[min lat, min lon], [max lat, max lon]] over all points of all such features;
\* the features of any other kind contribute nothing (the result is that of the
\* collection without them); and the centre lies within the bounds.
C1_BoundsExact ==
    (bres.called /\ AllPoints(gj) # {} /\ \A i \in 1..Len(gj) : ~HasNullGeometry(gj[i]))
    => LET pts == AllPoints(gj)
           only == get_bounds(SelectSeq(gj, Supported))
       IN /\ ~bres.raised
          /\ bres.bounds = <<<<Fin(SetMin(Lats(pts))), Fin(SetMin(Lons(pts)))>>,
                             <<Fin(SetMax(Lats(pts))), Fin(SetMax(Lons(pts)))>>>>
          /\ ~only.raised /\ only.bounds = bres.bounds /\ only.center = bres.center
          /\ FinLe(bres.bounds[1][1], bres.center[1])
          /\ FinLe(bres.center[1], bres.bounds[2][1])
          /\ FinLe(bres.bounds[1][2], bres.center[2])
          /\ FinLe(bres.center[2], bres.bounds[2][2])

\* a mixed collection: a Polygon holding the decoy point next to a
\* MultiLineString of two lines, and get_bounds has returned the box of the latter
C1_Witness ==
    /\ bres.called /\ ~bres.raised
    /\ Len(gj) = 2
    /\ gj[1].geometry.type = "Polygon"
    /\ gj[2].geometry.type = "MultiLineString"
    /\ gj[2].geometry.lines = <<<<P2>>, <<P1>>>>
    /\ bres.bounds = <<<<Fin(0), Fin(-2)>>, <<Fin(4), Fin(6)>>>>
    /\ bres.center = <<Fin(2), Fin(2)>>

\* C8: get_bounds raises on no feature and skips every feature whose geometry is
\* missing, null, without a type or of an unsupported type: its result is that of
\* the collection without those features.
C8_SkipsMalformed ==
    bres.called
    => LET only == get_bounds(SelectSeq(gj, Supported))
       IN ~bres.raised /\ bres.bounds = only.bounds /\ bres.center = only.center

\* no feature of the collection contributes a point, and every geometry is a
\* dict (or the key is missing)
NothingContributes ==
    /\ bres.called
    /\ AllPoints(gj) = {}
    /\ \A i \in 1..Len(gj) : ~HasNullGeometry(gj[i])

IsInf(x) == x.k \in {"+inf", "-inf"}

\* C9 as stated: with no contributing feature get_bounds returns min = +inf and
\* max = -inf, and both the centre and the bounds hold infinities.
C9_CenterInfinite ==
    NothingContributes
    => /\ ~bres.raised
       /\ bres.bounds = <<<<PInf, PInf>>, <<NInf, NInf>>>>
       /\ IsInf(bres.center[1]) /\ IsInf(bres.center[2])

\* C9, amended: with no contributing feature get_bounds returns min = +inf and
\* max = -inf in the bounds, and the centre is (nan, nan): inf + -inf is nan.
C9_Degenerate ==
    NothingContributes
    => /\ ~bres.raised
       /\ bres.bounds = <<<<PInf, PInf>>, <<NInf, NInf>>>>
       /\ bres.center = <<NaN, NaN>>

\* get_bounds has run on a collection of two features, one unsupported and one a
\* LineString with no point
C9_Witness ==
    /\ NothingContributes
    /\ Len(gj) = 2
    /\ gj[1].geometry.type = "MultiPoint"
    /\ gj[2].geometry.type = "LineString" /\ gj[2].geometry.line = <<>>
    /\ bres.center = <<NaN, NaN>>

\* the properties of feature i as loaded, and the keys of both modes
Props0(i) == FeatProperties(gj0[i])
PoissonSet == {"risk_bucket", "p_ge1", "lambda_hat"}
GbtSet == {"risk_bucket_gbt", "p_ge1_gbt", "lambda_hat_gbt"}
TwoModes == {"Poisson Regression", "Gradient Boosted Trees (GBT)"}

\* the risk-bucket field of the mode of the last build_map call
BucketKey == IF mode = "Poisson Regression" THEN "risk_bucket" ELSE "risk_bucket_gbt"

\* the documented colour of a bucket label, "#3186cc" for any other value
DocumentedColor(v) ==
    CASE v = StrV("Very Low") -> "#7fc97f"
      [] v = StrV("Low") -> "#beed90"
      [] v = StrV("Moderate") -> "#ffff99"
      [] v = StrV("Moderately High") -> "#fdc86e"
      [] v = StrV("High") -> "#fdae61"
      [] v = StrV("Very High") -> "#d7191c"
      [] OTHER -> "#3186cc"

SixNames ==
    {"Very Low", "Low", "Moderate", "Moderately High", "High", "Very High"}
Recognized(v) == v.t = "str" /\ v.s \in SixNames

\* C2: the style of a feature has weight 3 and opacity 0.9, and under either mode
\* its colour is the documented hex value of the feature's bucket label, "#3186cc"
\* for a bucket value that is none of the six names, and the Moderate colour
\* "#ffff99" when the bucket field is absent.
C2_StyleColor ==
    styled.i # 0
    => /\ styled.ret.weight = 3
       /\ styled.ret.opacity = 9 * (Unit \div 10)
       /\ mode \in TwoModes
          => styled.ret.color =
                IF BucketKey \in DOMAIN Props0(styled.i)
                THEN DocumentedColor(Props0(styled.i)[BucketKey])
                ELSE "#ffff99"

\* style_fn has coloured a feature labelled Moderately High under the GBT mode
C2_Witness ==
    /\ styled.i = 1
    /\ mode = "Gradient Boosted Trees (GBT)"
    /\ "risk_bucket_gbt" \in DOMAIN Props0(1)
    /\ Props0(1)["risk_bucket_gbt"] = StrV("Moderately High")
    /\ styled.ret.color = "#fdc86e"

\* every property of feature i but _tooltip is as it was loaded
PropsKept(i) ==
    LET a == Props0(i)
        b == FeatProperties(gj[i])
    IN /\ DOMAIN a \ {"_tooltip"} = DOMAIN b \ {"_tooltip"}
       /\ \A k \in DOMAIN a \ {"_tooltip"} : a[k] = b[k]

\* C3 as stated: a feature whose bucket label is absent, or a string that is none
\* of the six names, gets the colour of a feature labelled Moderate, and its
\* properties are as before.
C3_UnknownAsModerate ==
    styled.i # 0
    => /\ (BucketKey \notin DOMAIN Props0(styled.i)
            \/ (Props0(styled.i)[BucketKey].t = "str"
                /\ ~Recognized(Props0(styled.i)[BucketKey])))
          => styled.ret.color = PALETTE["Moderate"]
       /\ PropsKept(styled.i)

\* C3, amended: a feature whose bucket label is absent gets the colour of a feature
\* labelled Moderate; one whose label is present and none of the six names gets
\* "#3186cc"; and its properties are as before.
C3_Fallback ==
    styled.i # 0
    => /\ BucketKey \notin DOMAIN Props0(styled.i)
          => styled.ret.color = PALETTE["Moderate"]
       /\ (BucketKey \in DOMAIN Props0(styled.i)
            /\ ~Recognized(Props0(styled.i)[BucketKey]))
          => styled.ret.color = "#3186cc"
       /\ PropsKept(styled.i)

\* style_fn has coloured a feature with no bucket field of the mode, which
\* still has none
C3_Witness ==
    /\ styled.i = 1
    /\ mode = "Poisson Regression"
    /\ "risk_bucket" \notin DOMAIN Props0(1)
    /\ "risk_bucket_gbt" \in DOMAIN Props0(1)
    /\ "risk_bucket" \notin DOMAIN FeatProperties(gj[1])
    /\ styled.ret.color = "#ffff99"

\* the field names of a mode, as the specification lists them
ListedFields(m) ==
    IF m = "Poisson Regression"
    THEN [bucket_field |-> "risk_bucket", p_field |-> "p_ge1", lam_field |-> "lambda_hat"]
    ELSE [bucket_field |-> "risk_bucket_gbt", p_field |-> "p_ge1_gbt",
          lam_field |-> "lambda_hat_gbt"]

\* the properties of feature i as loaded, without the fields of the other mode
OwnProps(i) ==
    LET other == IF mode = "Poisson Regression" THEN GbtSet ELSE PoissonSet
    IN [k \in DOMAIN Props0(i) \ other |-> Props0(i)[k]]

\* C4: build_map reads risk_bucket, p_ge1, lambda_hat under "Poisson Regression" and
\* the three _gbt fields under the GBT mode and under any other mode: the tooltip and
\* the style are those of the listed fields, computed on the properties with the
\* other mode's three fields taken away.
C4_ModeFields ==
    status = "returned"
    => \A i \in 1..Len(gj) :
          /\ gj[i].properties["_tooltip"] = StrV(tooltip_html(OwnProps(i), ListedFields(mode)))
          /\ styled.i = i
             => styled.ret =
                   style_fn(Feature({"properties"}, EmptyGeom, OwnProps(i)),
                            ListedFields(mode)).ret

\* build_map has returned under a mode that is neither of the two, on a feature
\* that holds different values in the two triples, and style_fn has run
C4_Witness ==
    /\ status = "returned" /\ mode = "Other" /\ styled.i = 1
    /\ Len(gj) = 1
    /\ PoissonSet \cup GbtSet \subseteq DOMAIN Props0(1)
    /\ Props0(1)["risk_bucket"] = StrV("High")
    /\ Props0(1)["risk_bucket_gbt"] = StrV("Low")
    /\ Props0(1)["lambda_hat"] # Props0(1)["lambda_hat_gbt"]
    /\ Props0(1)["p_ge1"] # Props0(1)["p_ge1_gbt"]
    /\ styled.ret.color = "#beed90"

\* the base attributes present in feature i as loaded, in the order of show
PresentBase(i) ==
    LET Has(k) == k \in DOMAIN Props0(i)
    IN SelectSeq(show, Has)

StartsWith(str, pre) == Len(str) >= Len(pre) /\ SubSeq(str, 1, Len(pre)) = pre

\* the number of "<br>" in a string
RECURSIVE CountBr(_)
CountBr(str) ==
    IF Len(str) < 4 THEN 0
    ELSE IF SubSeq(str, 1, 4) = "<br>" THEN 1 + CountBr(SubSeq(str, 5, Len(str)))
         ELSE CountBr(SubSeq(str, 2, Len(str)))

\* the lines of the tooltip build_map gave feature i
TipLines(i) == tooltip_lines(Props0(i), ModeFields(mode))

\* C5: the tooltip is the "<br>" join of one line "<name>: <value>" per base attribute
\* present, in the order of show, then the rate line, the probability line and the
\* risk line, which shows the bucket value as it is, or "-" without the field: the
\* lines are as many as the base attributes present, plus three.
C5_TooltipLines ==
    status = "returned"
    => \A i \in 1..Len(gj) :
          LET present == PresentBase(i)
              n == Len(present)
              lines == TipLines(i)
              tip == gj[i].properties["_tooltip"].s
          IN /\ tip = Join(lines, "<br>")
             /\ n = Cardinality(DOMAIN Props0(i) \cap ShowKeys)
             /\ Len(lines) = n + 3
             /\ CountBr(tip) = n + 2
             /\ \A j \in 1..n :
                   lines[j] = present[j] \o ": " \o PyStr(Props0(i)[present[j]])
             /\ StartsWith(lines[n + 1], LamLabel)
             /\ StartsWith(lines[n + 2], P1Label)
             /\ lines[n + 3] = RiskLabel
                   \o (IF BucketKey \in DOMAIN Props0(i)
                       THEN PyStr(Props0(i)[BucketKey]) ELSE "-")

\* build_map has returned on a feature that holds the second and the last base
\* attribute only, and no bucket field of the mode
C5_Witness ==
    /\ status = "returned" /\ mode = "Poisson Regression"
    /\ Len(gj) = 1
    /\ DOMAIN Props0(1) \cap ShowKeys = {"Jenis_pipa", "DMA_norm"}
    /\ "risk_bucket" \notin DOMAIN Props0(1)
    /\ gj[1].properties["_tooltip"].s =
          "Jenis_pipa: PVC<br>DMA_norm: DMA 3<br>{lambda}_hat: None<br>P({ge}1): None<br>Risk: -"

\* the values that read as a number, and the number (in units of 10^-9)
IsNumber(v) == v.t \in {"int", "float"} \/ v \in {StrV("0.123456789"), StrV("1")}
NumberOf(v) ==
    CASE v.t = "float" -> v.n
      [] v.t = "int" -> v.n * Unit
      [] v = StrV("0.123456789") -> 123456789
      [] OTHER -> Unit

\* the multiples of 10^-4 nearest to x
Nearest4(x) ==
    {r \in {(x \div Step4) * Step4, (x \div Step4) * Step4 + Step4} :
        2 * r - 2 * x <= Step4 /\ 2 * x - 2 * r <= Step4}

\* what the tooltip may show for the field key of props
ShownAs(props, key) ==
    IF key \notin DOMAIN props THEN {"None"}
    ELSE IF IsNumber(props[key]) THEN {FloatRepr(r) : r \in Nearest4(NumberOf(props[key]))}
    ELSE IF props[key].t = "str" THEN {props[key].s}
    ELSE {"None"}

\* C6: the rate line and the probability line each show their own field by the same
\* rule: a value that reads as a number is shown rounded to 4 decimal places
\* (0.123456789 as 0.1235), any other value is shown as it is ("N/A" as N/A), and a
\* missing field is shown as None; neither line depends on the other field.
C6_RoundOrRaw ==
    status = "returned"
    => \A i \in 1..Len(gj) :
          LET n == Len(PresentBase(i))
              lines == TipLines(i)
              f == ModeFields(mode)
              P == Props0(i)
          IN /\ gj[i].properties["_tooltip"].s = Join(lines, "<br>")
             /\ lines[n + 1] \in {LamLabel \o x : x \in ShownAs(P, f.lam_field)}
             /\ lines[n + 2] \in {P1Label \o x : x \in ShownAs(P, f.p_field)}
             /\ PropsGet(P, f.lam_field, Null) = FloatV(123456789)
                => lines[n + 1] = LamLabel \o "0.1235"
             /\ PropsGet(P, f.p_field, Null) = FloatV(123456789)
                => lines[n + 2] = P1Label \o "0.1235"
             /\ PropsGet(P, f.lam_field, Null) = StrV("N/A")
                => lines[n + 1] = LamLabel \o "N/A"
             /\ PropsGet(P, f.p_field, Null) = StrV("N/A")
                => lines[n + 2] = P1Label \o "N/A"

\* build_map has returned on a feature whose rate is 0.123456789 and whose
\* probability is "N/A"
C6_Witness ==
    /\ status = "returned" /\ mode = "Poisson Regression"
    /\ Len(gj) = 1
    /\ DOMAIN Props0(1) = PoissonSet
    /\ Props0(1)["lambda_hat"] = FloatV(123456789)
    /\ Props0(1)["p_ge1"] = StrV("N/A")
    /\ gj[1].properties["_tooltip"].s =
          "{lambda}_hat: 0.1235<br>P({ge}1): N/A<br>Risk: " \o Props0(1)["risk_bucket"].s

\* C7: once build_map has returned, after any number of calls, the _tooltip of
\* every feature is the tooltip one call with the last mode gives the feature as it
\* was loaded: a later call overwrites the key, and neither reads nor extends it.
C7_TooltipIdempotent ==
    status = "returned"
    => \A i \in 1..Len(gj) :
          /\ "_tooltip" \in DOMAIN gj[i].properties
          /\ gj[i].properties["_tooltip"] = StrV(tooltip_html(Props0(i), ModeFields(mode)))

\* build_map has returned a second time, on a feature with properties, and the
\* tooltip is the one of a single Poisson call
C7_Witness ==
    /\ status = "returned" /\ calls = 2 /\ mode = "Poisson Regression"
    /\ Len(gj) >= 1
    /\ "p_ge1" \in DOMAIN Props0(1)
    /\ Props0(1)["p_ge1"] = FloatV(123456789)
    /\ "_tooltip" \notin DOMAIN Props0(1)
    /\ gj[1].properties["_tooltip"].s =
          "id_segmen: S-17<br>Length: 0.25<br>{lambda}_hat: N/A<br>P({ge}1): 0.1235<br>Risk: High"

\* the geometry of every feature, and the number and order of the features, are
\* as loaded, and so is every property but _tooltip
FrameKept ==
    /\ Len(gj) = Len(gj0)
    /\ \A i \in 1..Len(gj) :
          /\ gj[i].geometry = gj0[i].geometry
          /\ PropsKept(i)

\* get_bounds has found a centre that is a pair of numbers
CentreIsNumber == bres.center[1].k = "fin" /\ bres.center[2].k = "fin"

\* C10 as stated (on the collections that have a centre): build_map changes
\* nothing of the collection but _tooltip (no key other than _tooltip is added to
\* a feature or to its properties), and get_bounds on its own changes nothing.
C10_OnlyTooltipAdded ==
    /\ FrameKept
    /\ CentreIsNumber => \A i \in 1..Len(gj) : gj[i].keys = gj0[i].keys
    /\ calls = 0 => gj = gj0

\* C10, amended: build_map changes nothing of the collection but _tooltip, except
\* that a feature with no properties key gets one, holding _tooltip alone; and
\* get_bounds on its own changes nothing.
C10_Frame ==
    /\ FrameKept
    /\ \A i \in 1..Len(gj) :
          /\ gj0[i].keys \subseteq gj[i].keys
          /\ gj[i].keys \subseteq gj0[i].keys \cup {"properties"}
          /\ gj[i].keys # gj0[i].keys => DOMAIN gj[i].properties = {"_tooltip"}
          /\ status = "returned" => "properties" \in gj[i].keys
    /\ calls = 0 => gj = gj0

\* build_map has returned on two features, one with properties and one with no
\* properties key, which now has one
C10_Witness ==
    /\ status = "returned"
    /\ Len(gj) = 2
    /\ "risk_bucket" \in DOMAIN Props0(1)
    /\ "properties" \notin gj0[2].keys
    /\ "properties" \in gj[2].keys
    /\ gj[2].geometry = gj0[2].geometry

=============================================================================
